---- MODULE Spec2Model ----
(* The match lifecycle and move arbitration of backend/server.js: the four     *)
(* process-wide maps, the WebSocket connection events, and every async handler *)
(* cut at its awaits, so that handlers interleave exactly where the event loop *)
(* lets them.                                                                  *)
EXTENDS Integers, Sequences, FiniteSets, TLC

(* ------------------------------ bounds ---------------------------------- *)
\* connections ever opened
MaxConns == 2
\* identifiers uuidv4() ever hands out
MaxGames == 1
\* half-moves a position is played to before the players stop advancing it
MaxPly == 1
\* handlers suspended at an await (or queued by setImmediate) at one time
MaxTasks == 2
\* distinct values of the updated_at clock
StampMod == 2

(* ------------------------- program constants ---------------------------- *)
TEST_FID == 123
\* the sentinel 'ai' (an identity no connection ever gets)
AI == 0

(* ------------------ the position engine (chess.js) ---------------------- *)
\* The candidate moves a client (or the automated opponent) can name:
\* an ordinary legal move, a mating move, a drawing move, an illegal one.
Moves == {"adv", "mate", "draw", "bad"}

initialFEN == <<"w", 0, "none">>

\* new Chess(fen): parse the serialized position.
NewChess(fen) == [turn |-> fen[1], ply |-> fen[2], over |-> fen[3]]

\* chess.fen(): serialize the position.
FenOf(c) == <<c.turn, c.ply, c.over>>

Other(side) == IF side = "w" THEN "b" ELSE "w"

\* The engine accepts a move only in a position that is not over; a move that
\* ends the game needs at least one half-move played.
Legal(c, m) ==
    /\ c.over = "none"
    /\ \/ m = "adv"
       \/ m \in {"mate", "draw"} /\ c.ply >= 1

\* chess.move(m) on a legal move.
Move(c, m) ==
    [turn |-> Other(c.turn),
     ply  |-> c.ply + 1,
     over |-> CASE m = "mate" -> "checkmate"
                [] m = "draw" -> "draw"
                [] OTHER      -> "none"]

isCheckmate(c) == c.over = "checkmate"
isDraw(c) == c.over = "draw"
isGameOver(c) == c.over # "none"

(* ------------------------------ state ----------------------------------- *)
VARIABLES
    playerConnections,  \* keys of the playerConnections map
    socketCount,        \* the size of the Set each key maps to
    nextTestFid,        \* the counter identities are drawn from
    nextGameId,         \* the next identifier uuidv4() returns
    games,              \* the game objects ever published, by id
    activeGames,        \* keys of the activeGames map
    pendingChallenges,  \* the pendingChallenges map: id -> challenge
    playerGames,        \* the playerGames map: identity -> ids, in insertion order
    dbGames,            \* primary keys of the rows of table games
    tasks,              \* handlers suspended at an await or queued by setImmediate
    running,            \* the server process has not exited
    last                \* the step just taken: command, outcome, messages, db calls

vars == <<playerConnections, socketCount, nextTestFid, nextGameId, games, activeGames,
          pendingChallenges, playerGames, dbGames, tasks, running, last>>

NoTask == [kind |-> "none", pc |-> "none", ws |-> 0, gid |-> 0, m |-> "-",
           white |-> 0, black |-> 0, mode |-> "-", difficulty |-> "-",
           result |-> "-", winner |-> "-", n |-> 0, seq |-> 0, late |-> FALSE]

NoStep == [op |-> "init", ws |-> 0, gid |-> 0, m |-> "-", res |-> "-",
           sent |-> <<>>, db |-> <<>>, task |-> NoTask, req |-> <<>>]

Init ==
    /\ playerConnections = {}
    /\ socketCount = <<>>
    /\ nextTestFid = TEST_FID
    /\ nextGameId = 1
    /\ games = <<>>
    /\ activeGames = {}
    /\ pendingChallenges = <<>>
    /\ playerGames = <<>>
    /\ dbGames = {}
    /\ tasks = {}
    /\ running = TRUE
    /\ last = NoStep

(* ------------------------------ helpers --------------------------------- *)
\* map.set(k, v) and map.delete(k)
Put(f, k, v) == [x \in (DOMAIN f) \cup {k} |-> IF x = k THEN v ELSE f[x]]
Del(f, k) == [x \in (DOMAIN f) \ {k} |-> f[x]]

Range(s) == {s[i] : i \in DOMAIN s}

\* if (!playerGames.has(p)) playerGames.set(p, new Set()); playerGames.get(p).add(id)
AddPlayerGame(pg, p, id) ==
    IF p \notin DOMAIN pg THEN Put(pg, p, <<id>>)
    ELSE IF id \in Range(pg[p]) THEN pg
    ELSE Put(pg, p, Append(pg[p], id))

\* playerConnections.get(id): the sockets registered for an identity. Every
\* connection gets an identity of its own, so there is at most one.
ConnsOf(conns, id) == IF id \in conns THEN <<id>> ELSE <<>>

\* one ws.send per socket of the list
SendAll(sockets, msg) == [i \in DOMAIN sockets |-> <<sockets[i], msg>>]

\* The game object a handler builds before it is published.
NewGame(id, white, black, mode, difficulty) ==
    [id |-> id, fen |-> initialFEN, status |-> "in_progress",
     white_player_fid |-> white, black_player_fid |-> black,
     mode |-> mode, difficulty |-> difficulty,
     updated_at |-> 0, game |-> NewChess(initialFEN)]

\* new Date().toISOString() written to updated_at: a later reading of the clock
Touch(g) == (g.updated_at + 1) % StampMod

Step(op, ws, gid, m, res, sent, db, task) ==
    [op |-> op, ws |-> ws, gid |-> gid, m |-> m, res |-> res,
     sent |-> sent, db |-> db, task |-> task, req |-> <<>>]

ErrorMsg(text) == [type |-> "error", message |-> text]

\* A suspended handler; n tells two otherwise equal suspended handlers apart.
Task(kind, pc, ws, gid, m, white, black) ==
    [NoTask EXCEPT !.kind = kind, !.pc = pc, !.ws = ws, !.gid = gid, !.m = m,
                   !.white = white, !.black = black]

Fresh(ts, t) ==
    [t EXCEPT !.n = CHOOSE k \in 0..Cardinality(ts) :
                      /\ [t EXCEPT !.n = k] \notin ts
                      /\ \A j \in 0..(k - 1) : [t EXCEPT !.n = j] \in ts]

Spawn(ts, t) == ts \cup {Fresh(ts, [t EXCEPT !.n = 0])}

\* The handlers that have applied a move to a game and not yet come back
\* from recording it.
Applied(ts, gameId) == {t \in ts : t.gid = gameId /\ t.pc = "recordMove"}

\* History kept with the suspended handlers, which no handler reads: seq is
\* a handler's rank among the handlers of Applied, in the order in which they
\* applied their moves, and late tells that a move applied after the
\* handler's own has been broadcast already. Entered(ts, t) is the rank of a
\* handler that applies its move now; Left(ts, t, broadcast) is what becomes
\* of the others when handler t comes back, with or without a broadcast.
Entered(ts, t) == [t EXCEPT !.seq = Cardinality(Applied(ts, t.gid))]

Left(ts, t, broadcast) ==
    {IF u \in Applied(ts, t.gid)
     THEN [u EXCEPT !.seq = IF u.seq > t.seq THEN u.seq - 1 ELSE u.seq,
                    !.late = u.late \/ (broadcast /\ u.seq < t.seq)]
     ELSE u : u \in ts}

\* A handler that goes on after its move is recorded carries no history on.
Onward(t) == [t EXCEPT !.seq = 0, !.late = FALSE, !.n = 0]

IdsInUse == TEST_FID..(nextTestFid - 1)
GameIds == 1..MaxGames
\* a command that names no game: data.gameId is undefined
NoGameId == 0

(* ------------------------- an escaping exception ------------------------ *)
\* ws.on('message') calls handleMessage without awaiting it, and its try
\* sees only synchronous throws: an exception that leaves an async handler
\* rejects a promise nobody handles. The runtime answers that with a warning
\* or by ending the process, depending on its version and flags. When the
\* process ends, its maps, its connections and its suspended handlers are
\* gone; the database keeps its rows, and the game objects are kept here for
\* the record of what they were.
ProcessExit ==
    /\ running' = FALSE
    /\ playerConnections' = {}
    /\ socketCount' = <<>>
    /\ activeGames' = {}
    /\ pendingChallenges' = <<>>
    /\ playerGames' = <<>>
    /\ tasks' = {}
    /\ UNCHANGED <<nextTestFid, nextGameId, games, dbGames>>

(* --------------------- wss.on('connection') / close --------------------- *)
\* An identity handed out with the counter left where it was.
AllocatedSame(fid) == fid

\* ws.playerId = nextTestFid++: the counter after the assignment
Allocated(fid) == fid + 1

\* if (!playerConnections.has(playerId)) set(playerId, new Set()); then add(ws)
AddSocket(sc, playerId) ==
    IF playerId \in DOMAIN sc THEN Put(sc, playerId, sc[playerId] + 1)
    ELSE Put(sc, playerId, 1)

\* playerConnections.get(playerId).delete(ws); the key goes with its last socket
DelSocket(sc, playerId) ==
    IF sc[playerId] = 1 THEN Del(sc, playerId)
    ELSE Put(sc, playerId, sc[playerId] - 1)

Connect ==
    /\ running
    /\ nextTestFid < TEST_FID + MaxConns
    /\ playerConnections' = playerConnections \cup {nextTestFid}
    /\ socketCount' = AddSocket(socketCount, nextTestFid)
    /\ nextTestFid' = Allocated(nextTestFid)
    /\ last' = Step("connect", nextTestFid, 0, "-", "ok", <<>>, <<>>, NoTask)
    /\ UNCHANGED <<running, nextGameId, games, activeGames, pendingChallenges,
                   playerGames, dbGames, tasks>>

\* The opponent the close handler computes for a game of the player.
CloseOpponent(g, playerId) ==
    IF g.white_player_fid = playerId THEN g.black_player_fid
    ELSE g.white_player_fid

\* The opponent_disconnected notices of the close handler's loop, in the order
\* of the player's set of ids.
RECURSIVE CloseNotices(_, _, _)
CloseNotices(ids, playerId, conns) ==
    IF ids = <<>> THEN <<>>
    ELSE LET gameId == Head(ids)
             rest == CloseNotices(Tail(ids), playerId, conns)
         IN IF gameId \in activeGames
            THEN LET opponent == CloseOpponent(games[gameId], playerId)
                 IN IF opponent # AI
                    THEN SendAll(ConnsOf(conns, opponent),
                                 [type |-> "opponent_disconnected",
                                  gameId |-> gameId]) \o rest
                    ELSE rest
            ELSE rest

\* A close handler that leaves the player's games in the active store.
CloseRemovedNone(playerId) == {}

\* The ids the close handler deletes from activeGames.
CloseRemoved(playerId) ==
    IF playerId \in DOMAIN playerGames
    THEN Range(playerGames[playerId]) \cap activeGames
    ELSE {}

Close(ws) ==
    /\ ws \in playerConnections
    /\ LET conns == DOMAIN DelSocket(socketCount, ws)
           ids == IF ws \in DOMAIN playerGames THEN playerGames[ws] ELSE <<>>
       IN /\ playerConnections' = conns
          /\ socketCount' = DelSocket(socketCount, ws)
          /\ activeGames' = activeGames \ CloseRemoved(ws)
          /\ playerGames' = Del(playerGames, ws)
          /\ last' = Step("close", ws, 0, "-", "ok",
                          CloseNotices(ids, ws, conns), <<>>, NoTask)
    /\ UNCHANGED <<running, nextTestFid, nextGameId, games, pendingChallenges,
                   dbGames, tasks>>

(* ---------------- the database (services/database.js) ------------------- *)
\* An upsert in place of the insert: an existing row is no obstacle.
InsertAlways(id) == TRUE

\* Table games has id as its primary key: an insert of an id that is already
\* a row fails; any call can also fail for reasons of its own.
InsertAllowed(id) == id \notin dbGames

\* The possible results of createGame(game): {error, rows afterwards}.
createGame(id) ==
    {[error |-> TRUE, rows |-> dbGames]}
    \cup (IF InsertAllowed(id)
          THEN {[error |-> FALSE, rows |-> dbGames \cup {id}]}
          ELSE {})

(* --------------------------- create_game -------------------------------- *)
OpponentTypes == {"ai", "specific", "random", "none"}
Modes == {"blitz", "none"}
Colors == {"white", "black", "none"}

\* The checks without the one for missing parameters.
CreateCheckNoMissing(mode, opponentType) ==
    IF opponentType \notin {"ai", "specific"}
    THEN "Invalid opponent type: " \o opponentType
    ELSE "ok"

\* handleMessage's checks of a create_game: the error it answers, or "ok".
CreateCheck(mode, opponentType) ==
    IF mode = "none" \/ opponentType = "none"
    THEN "Missing required parameters: mode and opponentType"
    ELSE IF opponentType \notin {"ai", "specific"}
    THEN "Invalid opponent type: " \o opponentType
    ELSE "ok"

CreateRejected(ws, mode, opponentType) ==
    /\ ws \in playerConnections
    /\ CreateCheck(mode, opponentType) # "ok"
    /\ last' = [Step("create_game", ws, 0, "-", "rejected",
                     <<<<ws, ErrorMsg(CreateCheck(mode, opponentType))>>>>,
                     <<>>, NoTask)
                    EXCEPT !.req = <<mode, opponentType>>]
    /\ UNCHANGED <<running, playerConnections, socketCount, nextTestFid, nextGameId, games,
                   activeGames, pendingChallenges, playerGames, dbGames,
                   tasks>>

\* The creator put on white whatever colour they prefer.
AiWhiteAlways(creatorId, preferredColor) == creatorId

\* The sides of a game against the automated opponent.
AiWhite(creatorId, preferredColor) ==
    IF preferredColor = "black" THEN AI ELSE creatorId

\* The sentinel on the black side whatever the creator prefers.
AiBlackAlways(creatorId, preferredColor) == AI

AiBlack(creatorId, preferredColor) ==
    IF preferredColor = "black" THEN creatorId ELSE AI

\* difficulty: opponentType === 'ai' ? (data.difficulty || 'medium') : null
Difficulty(opponentType) == IF opponentType = "ai" THEN "medium" ELSE "null"

\* handleCreateGame, opponentType 'ai', up to `await createGame(game)`.
CreateAi(ws, mode, preferredColor) ==
    /\ ws \in playerConnections
    /\ CreateCheck(mode, "ai") = "ok"
    /\ nextGameId <= MaxGames
    /\ Cardinality(tasks) < MaxTasks
    /\ nextGameId' = nextGameId + 1
    /\ tasks' = Spawn(tasks,
                      [Task("create", "createGame", ws, nextGameId, "-",
                            AiWhite(ws, preferredColor),
                            AiBlack(ws, preferredColor))
                       EXCEPT !.mode = mode, !.difficulty = Difficulty("ai")])
    /\ last' = [Step("create_game", ws, nextGameId, "-", "await", <<>>,
                     <<"createGame">>, NoTask)
                EXCEPT !.req = <<mode, "ai", preferredColor>>]
    /\ UNCHANGED <<running, playerConnections, socketCount, nextTestFid, games, activeGames,
                   pendingChallenges, playerGames, dbGames>>

\* Both sides told they are white.
notifyBothWhite(g) ==
    SendAll(ConnsOf(playerConnections, g.white_player_fid),
            [type |-> "game_started", gameId |-> g.id, fen |-> g.fen,
             color |-> "white"])
    \o (IF g.black_player_fid = AI THEN <<>>
        ELSE SendAll(ConnsOf(playerConnections, g.black_player_fid),
                     [type |-> "game_started", gameId |-> g.id, fen |-> g.fen,
                      color |-> "white"]))

\* notifyGameStarted(game)
notifyGameStarted(g) ==
    SendAll(ConnsOf(playerConnections, g.white_player_fid),
            [type |-> "game_started", gameId |-> g.id, fen |-> g.fen,
             color |-> "white"])
    \o (IF g.black_player_fid = AI THEN <<>>
        ELSE SendAll(ConnsOf(playerConnections, g.black_player_fid),
                     [type |-> "game_started", gameId |-> g.id, fen |-> g.fen,
                      color |-> "black"]))

\* handleCreateGame, opponentType 'ai', from the return of createGame.
CreateAiResume(t) ==
    /\ t \in tasks /\ t.kind = "create" /\ t.pc = "createGame"
    /\ tasks' = tasks \ {t}
    /\ \E r \in createGame(t.gid) :
         /\ dbGames' = r.rows
         /\ IF r.error
            THEN /\ last' = Step("create_game", t.ws, t.gid, "-", "db_error",
                      <<<<t.ws, ErrorMsg("Failed to create AI game in database.")>>>>,
                      <<>>, t)
                 /\ UNCHANGED <<running, games, activeGames, playerGames>>
            ELSE LET g == NewGame(t.gid, t.white, t.black, t.mode,
                                  t.difficulty)
                 IN /\ games' = Put(games, t.gid, g)
                    /\ activeGames' = activeGames \cup {t.gid}
                    /\ playerGames' = AddPlayerGame(playerGames, t.ws, t.gid)
                    /\ last' = Step("create_game", t.ws, t.gid, "-", "started",
                                    notifyGameStarted(g), <<>>, t)
    /\ UNCHANGED <<running, playerConnections, socketCount, nextTestFid, nextGameId,
                   pendingChallenges>>

\* The challenge built and not stored.
StoreChallengeNot(gameId, challenge) == pendingChallenges

\* pendingChallenges.set(gameId, challenge)
StoreChallenge(gameId, challenge) == Put(pendingChallenges, gameId, challenge)

\* handleCreateGame, opponentType 'specific': a challenge link.
CreateChallenge(ws, mode) ==
    /\ ws \in playerConnections
    /\ CreateCheck(mode, "specific") = "ok"
    /\ nextGameId <= MaxGames
    /\ nextGameId' = nextGameId + 1
    /\ pendingChallenges' = StoreChallenge(nextGameId,
                                [id |-> nextGameId, creator_fid |-> ws,
                                 status |-> "challenge_pending",
                                 mode |-> mode])
    /\ playerGames' = AddPlayerGame(playerGames, ws, nextGameId)
    /\ last' = [Step("create_game", ws, nextGameId, "-", "challenge",
                     <<<<ws, [type |-> "challenge_created",
                              gameId |-> nextGameId,
                              joinLink |-> nextGameId]>>>>, <<>>, NoTask)
                EXCEPT !.req = <<mode, "specific">>]
    /\ UNCHANGED <<running, playerConnections, socketCount, nextTestFid, games, activeGames,
                   dbGames, tasks>>

\* The callback of the challenge's setTimeout (one hour), when it finds the
\* challenge still pending; when it does not, it does nothing at all. An id
\* is a challenge once only, so its timeout finds it pending at most once.
ExpireChallenge(gameId) ==
    /\ gameId \in DOMAIN pendingChallenges
    /\ pendingChallenges' = Del(pendingChallenges, gameId)
    /\ last' = Step("expire", 0, gameId, "-", "expired", <<>>, <<>>, NoTask)
    /\ UNCHANGED <<running, playerConnections, socketCount, nextTestFid, nextGameId, games,
                   activeGames, playerGames, dbGames, tasks>>

(* -------------------------- join_challenge ------------------------------ *)
\* The checks without the one that refuses the creator's own claim.
JoinCheckNoSelf(joinerId, gameId) ==
    IF gameId = NoGameId THEN "Missing gameId for join challenge."
    ELSE IF gameId \notin DOMAIN pendingChallenges
    THEN "Challenge not found or expired."
    ELSE "ok"

\* handleJoinChallenge's checks: the error it answers, or "ok".
JoinCheck(joinerId, gameId) ==
    IF gameId = NoGameId THEN "Missing gameId for join challenge."
    ELSE IF gameId \notin DOMAIN pendingChallenges
    THEN "Challenge not found or expired."
    ELSE IF pendingChallenges[gameId].creator_fid = joinerId
    THEN "Cannot join your own challenge."
    ELSE "ok"

JoinRejected(ws, gameId) ==
    /\ ws \in playerConnections
    /\ JoinCheck(ws, gameId) # "ok"
    /\ last' = Step("join_challenge", ws, gameId, "-", "rejected",
                    <<<<ws, ErrorMsg(JoinCheck(ws, gameId))>>>>, <<>>, NoTask)
    /\ UNCHANGED <<running, playerConnections, socketCount, nextTestFid, nextGameId, games,
                   activeGames, pendingChallenges, playerGames, dbGames,
                   tasks>>

\* handleJoinChallenge up to `await createGame(game)`; Math.random() < 0.5
\* puts the creator on white, or the joiner.
Join(ws, gameId, creatorWhite) ==
    /\ ws \in playerConnections
    /\ JoinCheck(ws, gameId) = "ok"
    /\ Cardinality(tasks) < MaxTasks
    /\ LET challenge == pendingChallenges[gameId]
           creator == challenge.creator_fid
       IN tasks' = Spawn(tasks,
                         [Task("join", "createGame", ws, gameId, "-",
                               IF creatorWhite THEN creator ELSE ws,
                               IF creatorWhite THEN ws ELSE creator)
                          EXCEPT !.mode = challenge.mode,
                                 !.difficulty = "null"])
    /\ last' = Step("join_challenge", ws, gameId, "-", "await", <<>>,
                    <<"createGame">>, NoTask)
    /\ UNCHANGED <<running, playerConnections, socketCount, nextTestFid, nextGameId, games,
                   activeGames, pendingChallenges, playerGames, dbGames>>

\* The challenge left in the map when its match is published.
ClaimedKept(gameId) == pendingChallenges

\* pendingChallenges.delete(challenge.id)
Claimed(gameId) ==
    IF gameId \in DOMAIN pendingChallenges
    THEN Del(pendingChallenges, gameId)
    ELSE pendingChallenges

\* The challenge dropped when createGame reports an error.
JoinFailedDrops(gameId) == Claimed(gameId)

\* if (dbError) { ...; ws.send(error); return; }: the map is not touched
JoinFailed(gameId) == pendingChallenges

\* handleJoinChallenge from the return of createGame.
JoinResume(t) ==
    /\ t \in tasks /\ t.kind = "join" /\ t.pc = "createGame"
    /\ tasks' = tasks \ {t}
    /\ \E r \in createGame(t.gid) :
         /\ dbGames' = r.rows
         /\ IF r.error
            THEN /\ last' = Step("join_challenge", t.ws, t.gid, "-", "db_error",
                      <<<<t.ws, ErrorMsg("Failed to start game in database.")>>>>,
                      <<>>, t)
                 /\ pendingChallenges' = JoinFailed(t.gid)
                 /\ UNCHANGED <<running, games, activeGames, playerGames>>
            ELSE LET g == NewGame(t.gid, t.white, t.black, t.mode,
                                  t.difficulty)
                 IN /\ games' = Put(games, t.gid, g)
                    /\ activeGames' = activeGames \cup {t.gid}
                    /\ playerGames' = AddPlayerGame(playerGames, t.ws, t.gid)
                    /\ pendingChallenges' = Claimed(t.gid)
                    /\ last' = Step("join_challenge", t.ws, t.gid, "-",
                                    "started", notifyGameStarted(g), <<>>, t)
    /\ UNCHANGED <<running, playerConnections, socketCount, nextTestFid, nextGameId>>

(* ----------------------------- make_move -------------------------------- *)
\* const humanColor = game.white_player_fid === humanPlayerId ? 'w' : 'b'
HumanColor(g, playerId) == IF g.white_player_fid = playerId THEN "w" ELSE "b"

\* The turn check left out.
TurnOkAlways(g, playerId) == TRUE

\* if (game.game.turn() !== humanColor) -> 'Not your turn'
TurnOk(g, playerId) == g.game.turn = HumanColor(g, playerId)

\* The move made on a fresh board instead of the game's own instance.
AfterMoveOnFreshBoard(c, m) ==
    IF Legal(c, m) THEN Move(NewChess(initialFEN), m) ELSE c

\* chess.move(m) on the game's own instance, which answers an illegal move by
\* leaving the position as it is.
AfterMove(c, m) == IF Legal(c, m) THEN Move(c, m) ELSE c

\* game.game.move(...); game.fen = game.game.fen(); game.updated_at = now
ApplyMove(g, m) ==
    [g EXCEPT !.game = AfterMove(g.game, m),
              !.fen = FenOf(AfterMove(g.game, m)),
              !.updated_at = Touch(g)]

\* The outcome of makeMoveHandler's checks on a game of the active store: the
\* turn check, then the move tried on a temporary instance built from game.fen.
MoveCheck(g, playerId, m) ==
    IF ~TurnOk(g, playerId) THEN "not_your_turn"
    ELSE IF ~Legal(NewChess(g.fen), m) THEN "invalid"
    ELSE "ok"

\* updated_at written before the checks instead of after them.
MoveSyncStampsFirst(g, playerId, m) ==
    IF MoveCheck(g, playerId, m) = "ok" THEN ApplyMove(g, m)
    ELSE [g EXCEPT !.updated_at = Touch(g)]

\* The game object when makeMoveHandler reaches its first await or returns.
MoveSync(g, playerId, m) ==
    IF MoveCheck(g, playerId, m) = "ok" THEN ApplyMove(g, m) ELSE g

\* The players stop advancing a position MaxPly half-moves deep.
Playable(gameId, m) ==
    (m = "adv" /\ gameId \in DOMAIN games) => games[gameId].game.ply < MaxPly

MoveNotFound(ws, gameId) ==
    /\ ws \in playerConnections
    /\ gameId \notin activeGames
    /\ last' = Step("make_move", ws, gameId, "-", "not_found",
                    <<<<ws, ErrorMsg("Game not found or not initialized")>>>>,
                    <<>>, NoTask)
    /\ UNCHANGED <<running, playerConnections, socketCount, nextTestFid, nextGameId, games,
                   activeGames, pendingChallenges, playerGames, dbGames,
                   tasks>>

\* A rejected make_move. An illegal move is answered by 'Invalid move' when
\* the engine returns null for it, and by nothing when the engine throws:
\* the throw of tempChess.move is outside the handler's try and leaves the
\* handler, and the process goes on or exits.
MoveRejected(ws, gameId, m, throws, exits) ==
    /\ ws \in playerConnections
    /\ gameId \in activeGames
    /\ Playable(gameId, m)
    /\ exits => throws
    /\ LET g == games[gameId]
           res == MoveCheck(g, ws, m)
       IN /\ res # "ok"
          /\ throws => res = "invalid"
          /\ last' = Step("make_move", ws, gameId, m,
                 IF exits THEN "exited" ELSE res,
                 IF res = "not_your_turn"
                 THEN <<<<ws, ErrorMsg("Not your turn")>>>>
                 ELSE IF throws THEN <<>>
                 ELSE <<<<ws, ErrorMsg("Invalid move")>>>>,
                 <<>>, NoTask)
          /\ IF exits
             THEN ProcessExit
             ELSE /\ games' = Put(games, gameId, MoveSync(g, ws, m))
                  /\ UNCHANGED <<running, playerConnections, socketCount, nextTestFid,
                                 nextGameId, activeGames, pendingChallenges,
                                 playerGames, dbGames, tasks>>

\* An accepted make_move, up to `await recordMove(...)`.
MakeMove(ws, gameId, m) ==
    /\ ws \in playerConnections
    /\ gameId \in activeGames
    /\ Playable(gameId, m)
    /\ Cardinality(tasks) < MaxTasks
    /\ LET g == games[gameId]
           g2 == MoveSync(g, ws, m)
       IN /\ MoveCheck(g, ws, m) = "ok"
          /\ games' = Put(games, gameId, g2)
          /\ tasks' = Spawn(tasks,
                            Entered(tasks, Task("move", "recordMove", ws,
                                                gameId, m, 0, 0)))
          /\ last' = Step("make_move", ws, gameId, m, "applied", <<>>,
                          <<"recordMove">>, NoTask)
    /\ UNCHANGED <<running, playerConnections, socketCount, nextTestFid, nextGameId, activeGames,
                   pendingChallenges, playerGames, dbGames>>

\* const status = game.game.isCheckmate() ? 'checkmate' : game.game.isDraw() ? 'draw' : 'in_progress'
StatusOf(c) ==
    IF isCheckmate(c) THEN "checkmate"
    ELSE IF isDraw(c) THEN "draw" ELSE "in_progress"

\* The move_made message broadcastMove builds from the game object as it is
\* at the time of the broadcast.
MoveMadeMsg(g, m) ==
    [type |-> "move_made", gameId |-> g.id, move |-> m, fen |-> g.fen,
     turn |-> g.game.turn, isCheckmate |-> isCheckmate(g.game),
     isDraw |-> isDraw(g.game)]

\* The sends of a broadcast to both sides: white's sockets, then black's,
\* the automated opponent left out.
ToBothSides(g, msg) ==
    (IF g.white_player_fid # AI
     THEN SendAll(ConnsOf(playerConnections, g.white_player_fid), msg)
     ELSE <<>>)
    \o (IF g.black_player_fid # AI
        THEN SendAll(ConnsOf(playerConnections, g.black_player_fid), msg)
        ELSE <<>>)

broadcastMove(g, m) == ToBothSides(g, MoveMadeMsg(g, m))

\* handleGameOver's result and winner, read before its await.
GameOverResult(c) ==
    IF isCheckmate(c) THEN "checkmate" ELSE IF isDraw(c) THEN "draw" ELSE "unknown"
GameOverWinner(c) ==
    IF GameOverResult(c) = "checkmate"
    THEN (IF c.turn = "b" THEN "white" ELSE "black")
    ELSE "null"

\* The sentinel taken to be on the move in every match it plays in.
IsAiTurnAlways(g) == g.white_player_fid = AI \/ g.black_player_fid = AI

\* const isAiTurn = isAiGame && game.game.turn() === aiColor
IsAiTurn(g) ==
    /\ g.white_player_fid = AI \/ g.black_player_fid = AI
    /\ g.game.turn = (IF g.white_player_fid = AI THEN "w" ELSE "b")

\* makeMoveHandler from the return of recordMove. A failed recordMove ends
\* the handler with an error to the requester. Otherwise the handler awaits
\* updateGameState, whose error it only logs: between the two awaits it
\* reads the status it hands to the database and nothing else, so the two
\* are one suspension here. Then the broadcast, and handleGameOver up to its
\* await, or the automated turn handed to setImmediate.
MoveResume(t, moveError) ==
    /\ t \in tasks /\ t.kind = "move" /\ t.pc = "recordMove"
    /\ LET g == games[t.gid]
           sent == broadcastMove(g, t.m)
           rest == Left(tasks \ {t}, t, ~moveError)
       IN IF moveError
          THEN /\ tasks' = rest
               /\ last' = Step("make_move", t.ws, t.gid, t.m, "record_error",
                               <<<<t.ws, ErrorMsg("Failed to record move")>>>>,
                               <<>>, t)
          ELSE IF isGameOver(g.game)
          THEN /\ tasks' = rest \cup
                     {Fresh(rest, [Onward(t) EXCEPT !.pc = "gameOver",
                                     !.result = GameOverResult(g.game),
                                     !.winner = GameOverWinner(g.game)])}
               /\ last' = Step("make_move", t.ws, t.gid, t.m, "broadcast",
                               sent, <<"updateGameState", StatusOf(g.game),
                                       "updateGameState",
                                       GameOverResult(g.game)>>, t)
          ELSE /\ tasks' = IF IsAiTurn(g)
                           THEN Spawn(rest, Task("ai", "immediate", 0, t.gid,
                                                 "-", 0, 0))
                           ELSE rest
               /\ last' = Step("make_move", t.ws, t.gid, t.m, "done", sent,
                               <<"updateGameState", StatusOf(g.game)>>, t)
    /\ UNCHANGED <<running, playerConnections, socketCount, nextTestFid, nextGameId, games,
                   activeGames, pendingChallenges, playerGames, dbGames>>

GameOverMsg(t) ==
    [type |-> "game_over", gameId |-> t.gid, result |-> t.result,
     winner |-> t.winner]

\* handleGameOver from the return of updateGameState, whoever called it.
GameOverResume(t) ==
    /\ t \in tasks /\ t.pc = "gameOver"
    /\ tasks' = tasks \ {t}
    /\ activeGames' = activeGames \ {t.gid}
    /\ last' = Step("game_over", t.ws, t.gid, t.m, "done",
                    ToBothSides(games[t.gid], GameOverMsg(t)), <<>>, t)
    /\ UNCHANGED <<running, playerConnections, socketCount, nextTestFid, nextGameId, games,
                   pendingChallenges, playerGames, dbGames>>

(* ------------------------------- resign --------------------------------- *)
\* resignGameHandler. On a game of the active store it evaluates
\* game.players.find(...): no game object has a players field, so the handler
\* throws a TypeError there, before any send and before the delete, and the
\* process goes on or exits.
Resign(ws, gameId, exits) ==
    /\ ws \in playerConnections
    /\ exits => gameId \in activeGames
    /\ last' = IF gameId \notin activeGames
               THEN Step("resign", ws, gameId, "-", "not_found",
                         <<<<ws, ErrorMsg("Game not found")>>>>, <<>>, NoTask)
               ELSE Step("resign", ws, gameId, "-",
                         IF exits THEN "exited" ELSE "threw",
                         <<>>, <<>>, NoTask)
    /\ IF exits
       THEN ProcessExit
       ELSE UNCHANGED <<running, playerConnections, socketCount, nextTestFid, nextGameId,
                        games, activeGames, pendingChallenges, playerGames,
                        dbGames, tasks>>

(* ------------------------------ reset_game ------------------------------ *)
\* The engine reset with the stored fen left as it was.
ResetGameStaleFen(g) ==
    [g EXCEPT !.game = NewChess(initialFEN),
              !.updated_at = Touch(g),
              !.status = "in_progress"]

\* game.game.reset(); game.fen = game.game.fen(); updated_at; status
ResetGame(g) ==
    [g EXCEPT !.game = NewChess(initialFEN),
              !.fen = FenOf(NewChess(initialFEN)),
              !.updated_at = Touch(g),
              !.status = "in_progress"]

ResetNotFound(ws, gameId) ==
    /\ ws \in playerConnections
    /\ gameId \notin activeGames
    /\ last' = Step("reset_game", ws, gameId, "-", "not_found",
                    <<<<ws, ErrorMsg("Game not found or not initialized")>>>>,
                    <<>>, NoTask)
    /\ UNCHANGED <<running, playerConnections, socketCount, nextTestFid, nextGameId, games,
                   activeGames, pendingChallenges, playerGames, dbGames,
                   tasks>>

\* resetGameHandler up to `await updateGameState(...)`.
Reset(ws, gameId) ==
    /\ ws \in playerConnections
    /\ gameId \in activeGames
    /\ Cardinality(tasks) < MaxTasks
    /\ games' = Put(games, gameId, ResetGame(games[gameId]))
    /\ tasks' = Spawn(tasks, Task("reset", "updateGameState", ws, gameId, "-",
                                  0, 0))
    /\ last' = Step("reset_game", ws, gameId, "-", "reset", <<>>,
                    <<"updateGameState", "in_progress">>, NoTask)
    /\ UNCHANGED <<running, playerConnections, socketCount, nextTestFid, nextGameId, activeGames,
                   pendingChallenges, playerGames, dbGames>>

\* resetGameHandler from the return of updateGameState: game_reset to both.
ResetResume(t) ==
    /\ t \in tasks /\ t.kind = "reset" /\ t.pc = "updateGameState"
    /\ tasks' = tasks \ {t}
    /\ last' = Step("reset_game", t.ws, t.gid, "-", "done",
                    ToBothSides(games[t.gid],
                                [type |-> "game_reset", gameId |-> t.gid,
                                 fen |-> games[t.gid].fen]), <<>>, t)
    /\ UNCHANGED <<running, playerConnections, socketCount, nextTestFid, nextGameId, games,
                   activeGames, pendingChallenges, playerGames, dbGames>>

(* ---------------------------- triggerAiMove ----------------------------- *)
\* What aiPlay(game.fen, {depth}) can answer: a move, or nothing usable.
AiAnswers == Moves \cup {"none"}

\* Any answer with a from and a to is taken for a move.
AiAcceptsAny(g, answer) == answer # "none"

\* The adapter's answer has from and to, and game.game.move returns a move.
AiAccepts(g, answer) == answer # "none" /\ Legal(g.game, answer)

\* triggerAiMove from the setImmediate callback to `await recordMove(...)`,
\* or to its return when it is not the sentinel's turn or the answer is no
\* move the engine accepts.
AiStart(t, answer) ==
    /\ t \in tasks /\ t.kind = "ai" /\ t.pc = "immediate"
    /\ Playable(t.gid, answer)
    /\ LET g == games[t.gid]
           rest == tasks \ {t}
       IN IF ~IsAiTurn(g)
          THEN /\ tasks' = rest
               /\ games' = games
               /\ last' = Step("ai_move", AI, t.gid, "-", "not_ai_turn",
                               <<>>, <<>>, t)
          ELSE IF ~AiAccepts(g, answer)
          THEN /\ tasks' = rest
               /\ games' = games
               /\ last' = Step("ai_move", AI, t.gid, answer, "no_move",
                               <<>>, <<>>, t)
          ELSE /\ games' = Put(games, t.gid, ApplyMove(g, answer))
               /\ tasks' = rest \cup
                     {Fresh(rest, Entered(rest, [t EXCEPT !.pc = "recordMove",
                                                   !.n = 0, !.m = answer]))}
               /\ last' = Step("ai_move", AI, t.gid, answer, "applied", <<>>,
                               <<"recordMove">>, t)
    /\ UNCHANGED <<running, playerConnections, socketCount, nextTestFid, nextGameId, activeGames,
                   pendingChallenges, playerGames, dbGames>>

\* triggerAiMove from the return of recordMove, whose error it does not
\* read, and of updateGameState (one suspension, as in makeMoveHandler): the
\* broadcast, then handleGameOver up to its await.
AiResume(t) ==
    /\ t \in tasks /\ t.kind = "ai" /\ t.pc = "recordMove"
    /\ LET g == games[t.gid]
           rest == Left(tasks \ {t}, t, TRUE)
       IN IF isGameOver(g.game)
          THEN /\ tasks' = rest \cup
                     {Fresh(rest, [Onward(t) EXCEPT !.pc = "gameOver",
                                     !.result = GameOverResult(g.game),
                                     !.winner = GameOverWinner(g.game)])}
               /\ last' = Step("ai_move", AI, t.gid, t.m, "broadcast",
                               broadcastMove(g, t.m),
                               <<"updateGameState", StatusOf(g.game),
                                 "updateGameState", GameOverResult(g.game)>>,
                               t)
          ELSE /\ tasks' = rest
               /\ last' = Step("ai_move", AI, t.gid, t.m, "done",
                               broadcastMove(g, t.m),
                               <<"updateGameState", StatusOf(g.game)>>, t)
    /\ UNCHANGED <<running, playerConnections, socketCount, nextTestFid, nextGameId, games,
                   activeGames, pendingChallenges, playerGames, dbGames>>

(* --------------------------- the state machine -------------------------- *)
Next ==
    \/ Connect
    \/ \E ws \in IdsInUse : Close(ws)
    \/ \E ws \in IdsInUse, mode \in Modes, o \in OpponentTypes :
           CreateRejected(ws, mode, o)
    \/ \E ws \in IdsInUse, mode \in Modes, c \in Colors : CreateAi(ws, mode, c)
    \/ \E ws \in IdsInUse, mode \in Modes : CreateChallenge(ws, mode)
    \/ \E t \in tasks : CreateAiResume(t)
    \/ \E id \in GameIds : ExpireChallenge(id)
    \/ \E ws \in IdsInUse, id \in GameIds \cup {NoGameId} : JoinRejected(ws, id)
    \/ \E ws \in IdsInUse, id \in GameIds, cw \in BOOLEAN : Join(ws, id, cw)
    \/ \E t \in tasks : JoinResume(t)
    \/ \E ws \in IdsInUse, id \in GameIds : MoveNotFound(ws, id)
    \/ \E ws \in IdsInUse, id \in GameIds, m \in Moves, th, ex \in BOOLEAN :
           MoveRejected(ws, id, m, th, ex)
    \/ \E ws \in IdsInUse, id \in GameIds, m \in Moves : MakeMove(ws, id, m)
    \/ \E t \in tasks, e \in BOOLEAN : MoveResume(t, e)
    \/ \E t \in tasks : GameOverResume(t)
    \/ \E ws \in IdsInUse, id \in GameIds, ex \in BOOLEAN : Resign(ws, id, ex)
    \/ \E ws \in IdsInUse, id \in GameIds : ResetNotFound(ws, id)
    \/ \E ws \in IdsInUse, id \in GameIds : Reset(ws, id)
    \/ \E t \in tasks : ResetResume(t)
    \/ \E t \in tasks, a \in AiAnswers : AiStart(t, a)
    \/ \E t \in tasks : AiResume(t)

Spec == Init /\ [][Next]_vars

\* The event loop runs every callback handed to setImmediate, and a
\* triggerAiMove suspended at its database calls resumes when they return.
AiTurnStarts == \E t \in tasks, a \in AiAnswers : AiStart(t, a)
AiTurnEnds == \E t \in tasks : AiResume(t)

FairSpec == Spec /\ WF_vars(AiTurnStarts) /\ WF_vars(AiTurnEnds)

(* ------------------------------ properties ------------------------------ *)
\* The side an identity holds in a game, "-" for an identity that holds none.
SideOf(g, id) ==
    IF g.white_player_fid = id THEN "w"
    ELSE IF g.black_player_fid = id THEN "b" ELSE "-"

\* The identity a side of a game is assigned to.
HolderOf(g, side) ==
    IF side = "w" THEN g.white_player_fid ELSE g.black_player_fid

\* The human participants of a game that have a connection registered.
Reachable(g) ==
    {g.white_player_fid, g.black_player_fid} \cap playerConnections

\* How many messages of a type a step sent to a connection.
Count(sent, ws, type) ==
    Cardinality({i \in DOMAIN sent : sent[i][1] = ws /\ sent[i][2].type = type})

\* How many messages of a type about a match a step sent to a connection.
CountFor(sent, ws, type, id) ==
    Cardinality({i \in DOMAIN sent :
                    /\ sent[i][1] = ws
                    /\ sent[i][2].type = type
                    /\ sent[i][2].gameId = id})

\* The step was the arrival of a make_move command (not a later resumption).
MoveArrival(step) ==
    /\ step.op = "make_move"
    /\ step.res \in {"not_found", "not_your_turn", "invalid", "applied"}

OnlyErrorTo(sent, ws) ==
    \A i \in DOMAIN sent : sent[i][1] = ws /\ sent[i][2].type = "error"

\* C1: every applied move (a participant's or the automated opponent's) hands
\* the move to the other side, and a make_move from the participant whose
\* side is not to move is answered 'Not your turn' and changes nothing.
C1_Step ==
    /\ (last'.op \in {"make_move", "ai_move"} /\ last'.res = "applied") =>
           /\ games'[last'.gid].game.turn = Other(games[last'.gid].game.turn)
           /\ games'[last'.gid].game.ply = games[last'.gid].game.ply + 1
    /\ (/\ MoveArrival(last')
        /\ last'.gid \in activeGames
        /\ SideOf(games[last'.gid], last'.ws) # "-"
        /\ SideOf(games[last'.gid], last'.ws) # games[last'.gid].game.turn) =>
           /\ last'.res = "not_your_turn"
           /\ last'.sent = <<<<last'.ws, ErrorMsg("Not your turn")>>>>
           /\ games' = games
           /\ activeGames' = activeGames
           /\ tasks' = tasks

C1_TurnAlternation == [][C1_Step]_vars

\* A participant was told 'Not your turn' in a game a move had been applied to.
C1_Witness ==
    /\ last.op = "make_move" /\ last.res = "not_your_turn"
    /\ last.gid \in activeGames
    /\ SideOf(games[last.gid], last.ws) # "-"
    /\ games[last.gid].game.ply >= 1

\* C2: a make_move rejected for an unknown match, a wrong turn or an illegal
\* move leaves every game object (fen, engine instance, status, updated_at)
\* and the active store as they were, calls the database not at all, starts
\* no handler work and sends nothing but an error to the requester.
C2_Step ==
    /\ (last'.op = "make_move"
        /\ last'.res \in {"not_found", "not_your_turn", "invalid"}) =>
           /\ activeGames' = activeGames
           /\ tasks' = tasks
    /\ (last'.op = "make_move"
        /\ last'.res \in {"not_found", "not_your_turn", "invalid",
                          "exited"}) =>
           /\ games' = games
           /\ dbGames' = dbGames
           /\ last'.db = <<>>
           /\ OnlyErrorTo(last'.sent, last'.ws)

C2_NoIllegalMutation == [][C2_Step]_vars

\* An illegal move by the side to move was rejected in a game already played in.
C2_Witness ==
    /\ last.op = "make_move" /\ last.res = "invalid"
    /\ last.gid \in activeGames
    /\ games[last.gid].game.ply >= 1
    /\ games[last.gid].updated_at # 0

\* C3: a make_move is applied only when the requester is the identity assigned
\* to the side that was to move (after the move, the side that is not to move).
C3_MoveAuthorized ==
    (last.op = "make_move" /\ last.res = "applied") =>
        last.ws = HolderOf(games[last.gid], Other(games[last.gid].game.turn))

\* C4: a resign on a match of the active store removes the match from the
\* store and sends game_over to the resigner.
C4_ResignConcludes ==
    (last.op = "resign" /\ last.res # "not_found") =>
        /\ last.gid \notin activeGames
        /\ Count(last.sent, last.ws, "game_over") = 1

\* C5: the position of a match whose position is terminal (checkmate or draw)
\* never changes again.
C5_Step ==
    \A id \in DOMAIN games :
        isGameOver(games[id].game) => games'[id].game = games[id].game

C5_TerminalImmutable == [][C5_Step]_vars

\* C6: a join_challenge on a token that has already been claimed (its match
\* exists) ends with an error to the claimant alone, publishes no match and
\* sends no game_started, also when it was suspended at createGame while the
\* first claim succeeded.
C6_Step ==
    (/\ last'.op = "join_challenge"
     /\ last'.res # "await"
     /\ last'.gid \in DOMAIN games) =>
        /\ last'.res \in {"rejected", "db_error"}
        /\ Len(last'.sent) = 1
        /\ OnlyErrorTo(last'.sent, last'.ws)
        /\ games' = games
        /\ activeGames' = activeGames

C6_ChallengeOneShot == [][C6_Step]_vars

\* A claim that was suspended while another claim of the same token succeeded
\* ended with the database's error.
C6_Witness ==
    /\ last.op = "join_challenge" /\ last.res = "db_error"
    /\ last.gid \in DOMAIN games

\* The notification that corresponds to the change a finished command made.
NoticeOf(step) ==
    CASE (step.op \in {"make_move", "ai_move"}
          /\ step.res \in {"record_error", "broadcast", "done"}) -> "move_made"
      [] (step.op = "reset_game" /\ step.res = "done") -> "game_reset"
      [] (step.op \in {"create_game", "join_challenge"}
          /\ step.res = "started") -> "game_started"
      [] step.op = "game_over" -> "game_over"
      [] OTHER -> "-"

\* C7: when a command that changed a match has run to its end, each
\* registered connection of the match's participants was sent exactly one
\* notification of the change, and no other connection was sent any.
C7_FanOut ==
    NoticeOf(last) # "-" =>
        \A ws \in IdsInUse :
            Count(last.sent, ws, NoticeOf(last)) =
                (IF ws \in Reachable(games[last.gid]) THEN 1 ELSE 0)

\* C8 as stated: a match of the active store stays there when one of its
\* participants disconnects.
C8_OriginalStep ==
    last'.op = "close" =>
        \A id \in activeGames :
            SideOf(games[id], last'.ws) # "-" => id \in activeGames'

C8_AmendedStep ==
    last'.op = "close" =>
        \A id \in activeGames :
            SideOf(games[id], last'.ws) # "-" =>
                /\ id \notin activeGames'
                /\ games'[id] = games[id]
                /\ \A p \in (Reachable(games[id]) \ {last'.ws}) :
                       CountFor(last'.sent, p, "opponent_disconnected", id) = 1

C9_NoChallengeOfTheGone ==
    \A id \in DOMAIN pendingChallenges :
        pendingChallenges[id].creator_fid \in playerConnections

\* The colour name of a side.
ColorName(side) == IF side = "w" THEN "white" ELSE "black"

\* C10: the handler of a mating move ends only by handleGameOver's last step,
\* with game_over {checkmate, winner: the side that mated} sent once to every
\* connected participant and the match out of the active store; and its
\* move_made carries isCheckmate true.
C10_CheckmateConcludes ==
    /\ (last.op \in {"make_move", "ai_move", "game_over"}
        /\ last.task.m = "mate"
        /\ last.res \in {"record_error", "done"}) =>
           /\ last.op = "game_over"
           /\ last.task.result = "checkmate"
           /\ last.task.winner =
                  ColorName(Other(games[last.gid].game.turn))
           /\ last.gid \notin activeGames
           /\ \A ws \in Reachable(games[last.gid]) :
                  Count(last.sent, ws, "game_over") = 1
    /\ (last.op \in {"make_move", "ai_move"}
        /\ last.task.m = "mate"
        /\ last.res = "broadcast") =>
           \A i \in DOMAIN last.sent : last.sent[i][2].isCheckmate

\* C11: a join_challenge by the challenge's own creator, or with a token that
\* is no pending challenge (never issued, already claimed or expired), is
\* answered by one error to the claimant alone; it publishes no match, starts
\* no handler work, calls the database not at all and leaves the
\* pending-challenge map, the active store and the player index as they were.
C11_Step ==
    (/\ last'.op = "join_challenge"
     /\ last'.res \in {"rejected", "await"}
     /\ \/ last'.gid \notin DOMAIN pendingChallenges
        \/ pendingChallenges[last'.gid].creator_fid = last'.ws) =>
        /\ last'.res = "rejected"
        /\ Len(last'.sent) = 1
        /\ OnlyErrorTo(last'.sent, last'.ws)
        /\ games' = games
        /\ activeGames' = activeGames
        /\ pendingChallenges' = pendingChallenges
        /\ playerGames' = playerGames
        /\ dbGames' = dbGames
        /\ tasks' = tasks
        /\ last'.db = <<>>

C11_JoinRejection == [][C11_Step]_vars

\* The creator's claim of their own pending challenge was refused while
\* another identity was connected.
C11_Witness ==
    /\ last.op = "join_challenge" /\ last.res = "rejected"
    /\ last.gid \in DOMAIN pendingChallenges
    /\ pendingChallenges[last.gid].creator_fid = last.ws
    /\ last.sent = <<<<last.ws, ErrorMsg("Cannot join your own challenge.")>>>>
    /\ playerConnections # {last.ws}

\* The step is the arrival of a create_game for the open queue (a random
\* opponent) that names a mode.
OpenQueueRequest(step) ==
    /\ step.op = "create_game"
    /\ Len(step.req) >= 2
    /\ step.req[1] # "none"
    /\ step.req[2] = "random"

\* C12: when a create_game for the open queue follows on another connected
\* identity's create_game for the open queue with the same mode, the second
\* request sends game_started to both identities, to one of them as white and
\* to the other as black.
C12_Step ==
    (/\ OpenQueueRequest(last)
     /\ OpenQueueRequest(last')
     /\ last'.req[1] = last.req[1]
     /\ last'.ws # last.ws
     /\ last.ws \in playerConnections') =>
        /\ Count(last'.sent, last.ws, "game_started") = 1
        /\ Count(last'.sent, last'.ws, "game_started") = 1
        /\ \E i, j \in DOMAIN last'.sent :
               /\ last'.sent[i][1] # last'.sent[j][1]
               /\ last'.sent[i][2].type = "game_started"
               /\ last'.sent[i][2].color = "white"
               /\ last'.sent[j][2].type = "game_started"
               /\ last'.sent[j][2].color = "black"

C12_OpenQueuePairing == [][C12_Step]_vars

\* The step is the arrival of a command (not the resumption of a handler).
Arrival(step) ==
    /\ step.op \in {"create_game", "join_challenge", "make_move", "resign",
                    "reset_game"}
    /\ step.res \notin {"db_error", "started", "record_error", "broadcast",
                        "done"}

\* The human, playing white against the automated opponent, has had a move
\* applied and broadcast to them, and black is to move.
HumanMoveBroadcast(id) ==
    /\ last.op = "make_move" /\ last.res = "done" /\ last.gid = id
    /\ games[id].black_player_fid = AI
    /\ games[id].white_player_fid = last.ws
    /\ games[id].game.turn = "b"
    /\ Count(last.sent, last.ws, "move_made") = 1

\* A move of the automated opponent has been applied and broadcast.
AiMoveBroadcast(id) ==
    /\ last.op = "ai_move" /\ last.res \in {"done", "broadcast"}
    /\ last.gid = id
    /\ \A p \in Reachable(games[id]) : Count(last.sent, p, "move_made") = 1

\* The human of the match sent a further command.
HumanCommand(id) ==
    /\ Arrival(last)
    /\ id \in DOMAIN games
    /\ last.ws = games[id].white_player_fid

\* The adapter answered with no move the engine accepts.
AdapterFailed(id) ==
    last.op = "ai_move" /\ last.res = "no_move" /\ last.gid = id

\* C13: in a match against the automated opponent with the human on white,
\* once the human's move has been applied and broadcast with black to move, a
\* move of the automated opponent is eventually applied and broadcast, unless
\* the human sends a further command first or the adapter answers with no
\* legal move.
C13_AutomatedReply ==
    \A id \in GameIds :
        [](HumanMoveBroadcast(id) =>
               <>(AiMoveBroadcast(id) \/ HumanCommand(id) \/ AdapterFailed(id)))

\* The one game_started a step sent to a connection names this side and this
\* position.
StartedAs(sent, ws, color, fen) ==
    /\ Count(sent, ws, "game_started") = 1
    /\ \A i \in DOMAIN sent :
           sent[i][1] = ws =>
               /\ sent[i][2].type = "game_started"
               /\ sent[i][2].color = color
               /\ sent[i][2].fen = fen

\* C14: a create_game for the automated opponent builds its match with the
\* requester on the preferred side (white unless black is preferred) and the
\* sentinel on the other; when its createGame succeeds the handler puts that
\* match into the active store, in_progress at the starting position, and
\* sends game_started with the requester's side to the requester's connection
\* and to nobody else.
C14_Step ==
    /\ (/\ last'.op = "create_game" /\ last'.res = "await"
        /\ last'.req[2] = "ai") =>
           /\ Cardinality(tasks' \ tasks) = 1
           /\ \A t \in tasks' \ tasks :
                  /\ t.ws = last'.ws /\ t.gid = last'.gid
                  /\ t.gid \notin DOMAIN games
                  /\ IF last'.req[3] = "black"
                     THEN t.white = AI /\ t.black = last'.ws
                     ELSE t.white = last'.ws /\ t.black = AI
    /\ (/\ last'.op = "create_game" /\ last'.res = "started") =>
           LET id == last'.gid
               t == last'.task
               g == games'[id]
           IN /\ id \notin activeGames /\ id \in activeGames'
              /\ g.id = id
              /\ g.status = "in_progress"
              /\ g.fen = initialFEN
              /\ g.game = NewChess(initialFEN)
              /\ g.white_player_fid = t.white
              /\ g.black_player_fid = t.black
              /\ \A i \in DOMAIN last'.sent : last'.sent[i][1] = t.ws
              /\ t.ws \in playerConnections =>
                     StartedAs(last'.sent, t.ws,
                               IF t.white = t.ws THEN "white" ELSE "black",
                               initialFEN)

C14_AutomatedCreation == [][C14_Step]_vars

\* A match against the automated opponent was published with the requester
\* on black, as preferred, and the requester was told so.
C14_Witness ==
    /\ last.op = "create_game" /\ last.res = "started"
    /\ last.gid \in activeGames
    /\ games[last.gid].white_player_fid = AI
    /\ games[last.gid].black_player_fid = last.ws
    /\ StartedAs(last.sent, last.ws, "black", initialFEN)

\* C15: a create_game for a challenge link that names a mode is never
\* refused; it adds one pending challenge of the requester under an id that
\* was neither a challenge nor a match before, sends one challenge_created
\* with that id and the join link to the requester and nothing to anyone
\* else, and leaves the active store alone. No pending challenge's id is in
\* the active store, and an id that is a pending challenge enters the store
\* only by a join_challenge of an identity other than the creator.
C15_Step ==
    /\ (/\ last'.op = "create_game" /\ Len(last'.req) >= 2
        /\ last'.req[1] # "none" /\ last'.req[2] = "specific") =>
           LET id == last'.gid
           IN /\ last'.res = "challenge"
              /\ id \notin DOMAIN pendingChallenges
              /\ id \notin DOMAIN games
              /\ DOMAIN pendingChallenges' = DOMAIN pendingChallenges \cup {id}
              /\ pendingChallenges'[id].creator_fid = last'.ws
              /\ \A c \in DOMAIN pendingChallenges :
                     pendingChallenges'[c] = pendingChallenges[c]
              /\ Len(last'.sent) = 1
              /\ last'.sent[1][1] = last'.ws
              /\ last'.sent[1][2].type = "challenge_created"
              /\ last'.sent[1][2].gameId = id
              /\ last'.sent[1][2].joinLink = id
              /\ activeGames' = activeGames
              /\ games' = games
    /\ \A id \in DOMAIN pendingChallenges' : id \notin activeGames'
    /\ \A id \in DOMAIN pendingChallenges :
           id \in activeGames' =>
               /\ last'.op = "join_challenge" /\ last'.res = "started"
               /\ last'.gid = id
               /\ last'.ws # pendingChallenges[id].creator_fid
               /\ {games'[id].white_player_fid, games'[id].black_player_fid}
                      = {last'.ws, pendingChallenges[id].creator_fid}
    /\ \A id \in activeGames' \ activeGames :
           last'.op = "join_challenge" =>
               /\ last'.ws \in {games'[id].white_player_fid,
                                games'[id].black_player_fid}
               /\ games'[id].white_player_fid # games'[id].black_player_fid
               /\ AI \notin {games'[id].white_player_fid,
                             games'[id].black_player_fid}

C15_ChallengeCreation == [][C15_Step]_vars

\* A challenge was created while another identity was connected, and only
\* the creator was told.
C15_Witness ==
    /\ last.op = "create_game" /\ last.res = "challenge"
    /\ last.gid \in DOMAIN pendingChallenges
    /\ last.gid \notin activeGames
    /\ Cardinality(playerConnections) >= 2
    /\ Len(last.sent) = 1
    /\ last.sent[1][1] = last.ws

\* C16: a create_game without a mode, without an opponent type or with an
\* opponent type the server does not support is answered by one error to the
\* requester alone and creates nothing: the active store, the game objects,
\* the pending-challenge map, the player-to-games index, the id counter, the
\* database and the suspended handlers are as they were.
C16_Step ==
    (/\ last'.op = "create_game" /\ Len(last'.req) >= 2
     /\ \/ last'.req[1] = "none"
        \/ last'.req[2] = "none"
        \/ last'.req[2] \notin {"ai", "specific"}) =>
        /\ last'.res = "rejected"
        /\ Len(last'.sent) = 1
        /\ OnlyErrorTo(last'.sent, last'.ws)
        /\ activeGames' = activeGames
        /\ games' = games
        /\ pendingChallenges' = pendingChallenges
        /\ playerGames' = playerGames
        /\ nextGameId' = nextGameId
        /\ dbGames' = dbGames
        /\ tasks' = tasks
        /\ last'.db = <<>>

C16_CreateRejection == [][C16_Step]_vars

\* A create_game for an unsupported opponent type, mode given, was refused
\* while the requester had a game or a challenge of their own.
C16_Witness ==
    /\ last.op = "create_game" /\ last.res = "rejected"
    /\ last.req = <<"blitz", "random">>
    /\ last.ws \in DOMAIN playerGames
    /\ OnlyErrorTo(last.sent, last.ws)

\* C17: a join_challenge by an identity other than the creator builds its
\* match under the challenge's id with the creator and the claimant on
\* opposite sides; when its createGame succeeds the handler puts that match
\* into the active store, in_progress at the starting position, and sends
\* game_started to the connection of the creator and to that of the
\* claimant, each with its own side, and to nobody else.
C17_Step ==
    /\ (last'.op = "join_challenge" /\ last'.res = "await") =>
           /\ last'.gid \in DOMAIN pendingChallenges
           /\ pendingChallenges[last'.gid].creator_fid # last'.ws
           /\ Cardinality(tasks' \ tasks) = 1
           /\ \A t \in tasks' \ tasks :
                  /\ t.ws = last'.ws /\ t.gid = last'.gid
                  /\ t.white # t.black
                  /\ {t.white, t.black} =
                         {last'.ws, pendingChallenges[last'.gid].creator_fid}
    /\ (last'.op = "join_challenge" /\ last'.res = "started") =>
           LET id == last'.gid
               t == last'.task
               g == games'[id]
               sides == {g.white_player_fid, g.black_player_fid}
           IN /\ id \notin activeGames /\ id \in activeGames'
              /\ g.id = id
              /\ g.status = "in_progress"
              /\ g.fen = initialFEN
              /\ g.game = NewChess(initialFEN)
              /\ g.white_player_fid = t.white
              /\ g.black_player_fid = t.black
              /\ t.ws \in sides
              /\ AI \notin sides
              /\ \A i \in DOMAIN last'.sent : last'.sent[i][1] \in sides
              /\ g.white_player_fid \in playerConnections =>
                     StartedAs(last'.sent, g.white_player_fid, "white",
                               initialFEN)
              /\ g.black_player_fid \in playerConnections =>
                     StartedAs(last'.sent, g.black_player_fid, "black",
                               initialFEN)

C17_JoinSuccess == [][C17_Step]_vars

\* A claim succeeded with the claimant on white, and the creator and the
\* claimant were each told their side.
C17_Witness ==
    /\ last.op = "join_challenge" /\ last.res = "started"
    /\ last.gid \in activeGames
    /\ games[last.gid].white_player_fid = last.ws
    /\ StartedAs(last.sent, last.ws, "white", initialFEN)
    /\ StartedAs(last.sent, games[last.gid].black_player_fid, "black",
                 initialFEN)

\* C18: a reset_game on a match of the active store puts the position back
\* to the starting position, leaves the match's id, sides, mode and
\* difficulty as they were, its status in_progress and the match in the
\* store; and when the handler has run to its end, every connection of the
\* match's human participants has been sent one game_reset that carries the
\* starting position.
C18_Step ==
    /\ (last'.op = "reset_game" /\ last'.gid \in activeGames
        /\ Arrival(last')) =>
           LET g == games[last'.gid]
               h == games'[last'.gid]
           IN /\ last'.res = "reset"
              /\ h.game = NewChess(initialFEN)
              /\ h.fen = initialFEN
              /\ h.id = g.id
              /\ h.white_player_fid = g.white_player_fid
              /\ h.black_player_fid = g.black_player_fid
              /\ h.mode = g.mode
              /\ h.difficulty = g.difficulty
              /\ h.status = "in_progress"
              /\ activeGames' = activeGames
    /\ (last'.op = "reset_game" /\ last'.res = "done") =>
           \A p \in Reachable(games[last'.gid]) :
               /\ Count(last'.sent, p, "game_reset") = 1
               /\ \A i \in DOMAIN last'.sent :
                      last'.sent[i][2].fen = initialFEN

C18_Reset == [][C18_Step]_vars

\* C19: when the timeout of a challenge finds it unclaimed, the challenge is
\* removed from the pending-challenge map and its creator, if still
\* connected, is sent a cancellation notice; a join_challenge with the token
\* that arrives next is refused.
C19_Step ==
    /\ last'.op = "expire" =>
           /\ last'.gid \in DOMAIN pendingChallenges
           /\ last'.gid \notin DOMAIN pendingChallenges'
           /\ pendingChallenges[last'.gid].creator_fid \in playerConnections =>
                  \E i \in DOMAIN last'.sent :
                      /\ last'.sent[i][1] =
                             pendingChallenges[last'.gid].creator_fid
                      /\ last'.sent[i][2].gameId = last'.gid
    /\ (/\ last.op = "expire"
        /\ last'.op = "join_challenge" /\ Arrival(last')
        /\ last'.gid = last.gid) =>
           /\ last'.res = "rejected"
           /\ OnlyErrorTo(last'.sent, last'.ws)

C19_ChallengeExpiry == [][C19_Step]_vars

\* C20: when a handler's persistence call has failed (createGame, recordMove;
\* a failed updateGameState is only logged), the handler sends no error to
\* anyone and goes on as after a success: the move it applied is broadcast to
\* every connected participant, the match it built is in the active store.
C20_PersistenceInvisible ==
    /\ last.res \in {"db_error", "record_error"} =>
           \A i \in DOMAIN last.sent : last.sent[i][2].type # "error"
    /\ last.res = "record_error" =>
           \A p \in Reachable(games[last.gid]) :
               Count(last.sent, p, "move_made") = 1
    /\ (last.res = "db_error" /\ last.op = "create_game") =>
           last.gid \in activeGames

\* C21: no move_made of a match is sent after the move_made of a move that
\* was applied to the match later: a handler that broadcasts its move has not
\* been overtaken by the broadcast of a later move.
C21_BroadcastOrder ==
    (/\ last.op \in {"make_move", "ai_move"}
     /\ last.res \in {"done", "broadcast"}
     /\ last.sent # <<>>) =>
        ~last.task.late

\* C22: a make_move that arrives while another make_move's handler for the
\* same match is suspended is checked against the position as the earlier
\* move left it: from the side that is not to move there (the side of the
\* suspended handler, if nothing else moved) it is refused with 'Not your
\* turn', an illegal one is not applied, and an accepted one is applied on
\* top of that position. No step changes a position except by one legal move
\* made in it or by a reset.
C22_Step ==
    /\ (/\ MoveArrival(last') \/ (last'.op = "make_move" /\ last'.res = "exited")
        /\ last'.gid \in activeGames
        /\ Applied(tasks, last'.gid) # {}) =>
           LET g == games[last'.gid]
               h == games'[last'.gid]
           IN /\ HumanColor(g, last'.ws) # g.game.turn =>
                     /\ last'.res = "not_your_turn"
                     /\ last'.sent = <<<<last'.ws, ErrorMsg("Not your turn")>>>>
                     /\ h = g
              /\ (/\ HumanColor(g, last'.ws) = g.game.turn
                  /\ ~Legal(g.game, last'.m)) =>
                     /\ last'.res \in {"invalid", "exited"}
                     /\ h = g
              /\ (/\ HumanColor(g, last'.ws) = g.game.turn
                  /\ Legal(g.game, last'.m)) =>
                     /\ last'.res = "applied"
                     /\ h.game = Move(g.game, last'.m)
                     /\ h.fen = FenOf(h.game)
    /\ \A id \in DOMAIN games :
           games'[id].game # games[id].game =>
               \/ /\ last'.op = "reset_game" /\ last'.gid = id
                  /\ games'[id].game = NewChess(initialFEN)
               \/ /\ last'.op \in {"make_move", "ai_move"} /\ last'.gid = id
                  /\ Legal(games[id].game, last'.m)
                  /\ games'[id].game = Move(games[id].game, last'.m)

C22_MovesSerialized == [][C22_Step]_vars

\* A second make_move of the same requester was refused with 'Not your turn'
\* while the handler of their first was suspended at recordMove.
C22_Witness ==
    /\ last.op = "make_move" /\ last.res = "not_your_turn"
    /\ \E t \in Applied(tasks, last.gid) : t.kind = "move" /\ t.ws = last.ws
    /\ games[last.gid].game.ply >= 1

\* C23: the broadcast of an applied move does not wait for the database: the
\* step that applies a move sends move_made to every connected participant,
\* and a handler whose recordMove has failed has broadcast its move all the
\* same.
C23_NotBlockedOnStorage ==
    /\ (last.op \in {"make_move", "ai_move"} /\ last.res = "applied") =>
           \A p \in Reachable(games[last.gid]) :
               Count(last.sent, p, "move_made") = 1
    /\ (last.op = "make_move" /\ last.res = "record_error") =>
           \E i \in DOMAIN last.sent : last.sent[i][2].type = "move_made"

\* C24: no identifier is at once a key of the pending-challenge map and of
\* the active store, whatever join_challenge handlers are suspended.
C24_NeverBoth == DOMAIN pendingChallenges \cap activeGames = {}

\* A challenge has become a match while another join_challenge for the same
\* identifier is still suspended at createGame.
C24_Witness ==
    \E t \in tasks :
        /\ t.kind = "join" /\ t.pc = "createGame"
        /\ t.gid \in activeGames
        /\ t.gid \notin DOMAIN pendingChallenges
        /\ last.op = "join_challenge" /\ last.res = "started"
        /\ last.gid = t.gid

\* C25: every match in the active store has both sides assigned, never the
\* same human identity on both sides, and at most one side that is the
\* sentinel 'ai'.
C25_DistinctSides ==
    \A id \in activeGames :
        LET g == games[id] IN
            /\ g.white_player_fid \in IdsInUse \cup {AI}
            /\ g.black_player_fid \in IdsInUse \cup {AI}
            /\ g.white_player_fid # g.black_player_fid

\* A match between two humans has just been published by join_challenge.
C25_Witness ==
    /\ last.op = "join_challenge" /\ last.res = "started"
    /\ last.gid \in activeGames
    /\ games[last.gid].white_player_fid \in IdsInUse
    /\ games[last.gid].black_player_fid \in IdsInUse

\* C26: an automated turn whose adapter answers with no move, or with a move
\* the engine rejects, ends with every match as it was (position, side to
\* move, updated_at), nothing written to the database, nothing sent, the
\* active store unchanged and the sentinel still to move; the turn is over.
C26_Step ==
    (/\ last'.op = "ai_move"
     /\ last'.task \in tasks /\ last'.task.pc = "immediate"
     /\ IsAiTurn(games[last'.gid])
     /\ last'.m = "none" \/ ~Legal(games[last'.gid].game, last'.m)) =>
        /\ games' = games
        /\ dbGames' = dbGames
        /\ activeGames' = activeGames
        /\ last'.sent = <<>> /\ last'.db = <<>>
        /\ IsAiTurn(games'[last'.gid])
        /\ tasks' = tasks \ {last'.task}
C26_FailedTurnIntact == [][C26_Step]_vars

\* An automated turn of a match in the active store has just ended on an
\* answer that is no legal move.
C26_Witness ==
    /\ last.op = "ai_move" /\ last.task.pc = "immediate"
    /\ last.m = "none" \/ ~Legal(games[last.gid].game, last.m)
    /\ last.gid \in activeGames
    /\ IsAiTurn(games[last.gid])
    /\ games[last.gid].game.ply > 0

\* C27: a command whose handling fails, by an error reply or by an exception
\* in the handler, leaves every match it does not name, every pending
\* challenge and the connection registry as they were, and the server goes
\* on processing commands.
C27_Step ==
    (/\ last'.op \in {"make_move", "resign", "reset_game", "join_challenge",
                      "create_game"}
     /\ last'.res \in {"not_found", "not_your_turn", "invalid", "rejected",
                       "threw", "exited"}) =>
        /\ running'
        /\ playerConnections' = playerConnections
        /\ pendingChallenges' = pendingChallenges
        /\ \A id \in activeGames \ {last'.gid} :
               id \in activeGames' /\ games'[id] = games[id]
C27_FailureIsolation == [][C27_Step]_vars

\* C28: in every state, which is every point where a handler has yielded or
\* finished, the stored fen of each match in the active store is the fen of
\* its engine instance.
C28_CachedFen ==
    \A id \in activeGames : games[id].fen = FenOf(games[id].game)

\* A handler has applied a move to a match in the active store and is
\* suspended at recordMove.
C28_Witness ==
    \E t \in tasks :
        /\ t.kind \in {"move", "ai"} /\ t.pc = "recordMove"
        /\ t.gid \in activeGames
        /\ games[t.gid].game.ply > 0
        /\ games[t.gid].fen # initialFEN

\* C29: a newly opened connection gets an identity never assigned before; in
\* every state each identity in the connection registry maps to a set of
\* exactly one connection; an identity removed by disconnect is never
\* registered again.
C29_Step ==
    /\ (last'.op = "connect") =>
           /\ last'.ws \notin IdsInUse
           /\ last'.ws \notin playerConnections
           /\ last'.ws \in playerConnections'
           /\ nextTestFid' > last'.ws
    /\ DOMAIN socketCount' = playerConnections'
    /\ \A id \in playerConnections' : socketCount'[id] = 1
    /\ \A id \in IdsInUse \ playerConnections : id \notin playerConnections'
    /\ nextTestFid' >= nextTestFid
C29_FreshIdentity == [][C29_Step]_vars

\* A connection has been opened after an earlier identity was removed by
\* disconnect.
C29_Witness ==
    /\ last.op = "connect"
    /\ last.ws \in playerConnections
    /\ \E id \in IdsInUse : id < last.ws /\ id \notin playerConnections

\* C30: whenever 'ai' is the side to move in an in_progress match of the
\* active store whose game is not over, an automated turn for that match is
\* queued or running, or the handler of the move that gave it the turn has
\* yet to queue one.
C30_TurnScheduled ==
    \A id \in activeGames :
        (/\ games[id].status = "in_progress"
         /\ ~isGameOver(games[id].game)
         /\ IsAiTurn(games[id])) =>
            \E t \in tasks : t.gid = id /\ t.kind \in {"ai", "move"}

\* The step sent an error notification to the requester of its command.
ErrorToRequester(step) ==
    \E i \in DOMAIN step.sent :
        step.sent[i][1] = step.ws /\ step.sent[i][2].type = "error"

\* C31: a make_move answered with an error to its requester has changed no
\* game object: the step that sends the error changes none, and the handler
\* that sends it is not one that has applied its move to the match.
C31_Step ==
    (last'.op = "make_move" /\ ErrorToRequester(last')) =>
        /\ games' = games
        /\ last'.task \notin Applied(tasks, last'.gid)
C31_ErrorMeansUnchanged == [][C31_Step]_vars

\* The side a step's mover played for: 'ai''s side in an automated turn, the
\* colour makeMoveHandler took the requester for otherwise.
MoverSide(step) ==
    IF step.op = "ai_move"
    THEN (IF games[step.gid].white_player_fid = AI THEN "w" ELSE "b")
    ELSE HumanColor(games[step.gid], step.ws)

\* The positions that result immediately from a move m of a side.
ResultsOf(side, m) ==
    {Move([turn |-> side, ply |-> p, over |-> "none"], m) : p \in 0..MaxPly}

\* C32: every move_made sent for a move m carries a position, and a side to
\* move, that result immediately from m played by its mover.
C32_PayloadMatchesMove ==
    (/\ last.op \in {"make_move", "ai_move"}
     /\ last.res \in {"done", "broadcast"}) =>
        \A i \in DOMAIN last.sent :
            last.sent[i][2].type = "move_made" =>
                \E c \in ResultsOf(MoverSide(last), last.m) :
                    /\ last.sent[i][2].fen = FenOf(c)
                    /\ last.sent[i][2].turn = c.turn
                    /\ last.sent[i][2].isCheckmate = isCheckmate(c)
                    /\ last.sent[i][2].isDraw = isDraw(c)

\* C33: a reset_game or resign naming a match of the active store, sent by an
\* identity that is neither of its sides, leaves the match's position and
\* its place in the active store as they were, and no step of its handling
\* sends game_reset or game_over to anyone.
C33_Step ==
    (/\ last'.op \in {"reset_game", "resign"}
     /\ last'.gid \in DOMAIN games
     /\ SideOf(games[last'.gid], last'.ws) = "-") =>
        /\ games'[last'.gid].game = games[last'.gid].game
        /\ (last'.gid \in activeGames) = (last'.gid \in activeGames')
        /\ \A i \in DOMAIN last'.sent :
               last'.sent[i][2].type \notin {"game_reset", "game_over"}
C33_ParticipantsOnly == [][C33_Step]_vars

\* C34: every match in the active store has a human participant whose
\* identity is in the connection registry.
C34_NoOrphans == \A id \in activeGames : Reachable(games[id]) # {}

\* C35: no connection is sent game_over for the same match by two
\* conclusions, here two that follow one another.
C35_Step ==
    (/\ last.op = "game_over" /\ last'.op = "game_over"
     /\ last.gid = last'.gid) =>
        \A p \in IdsInUse :
            Count(last.sent, p, "game_over") + Count(last'.sent, p, "game_over")
                <= 1
C35_OneConclusion == [][C35_Step]_vars

\* C36: a step of an automated turn changes a game object only when the
\* side to move is the side of 'ai', and then by one move on the current
\* position; an automated turn that starts when the side to move is not the
\* side of 'ai' changes nothing, writes nothing and sends nothing.
C36_Step ==
    /\ (last'.op = "ai_move" /\ games' # games) =>
           /\ games[last'.gid].game.turn = SideOf(games[last'.gid], AI)
           /\ games'[last'.gid].game =
                  Move(games[last'.gid].game, last'.m)
           /\ \A id \in DOMAIN games \ {last'.gid} : games'[id] = games[id]
    /\ (/\ last'.op = "ai_move" /\ last'.task.pc = "immediate"
        /\ games[last'.gid].game.turn # SideOf(games[last'.gid], AI)) =>
           /\ games' = games
           /\ last'.sent = <<>> /\ last'.db = <<>>
           /\ tasks' = tasks \ {last'.task}
C36_OwnSideOnly == [][C36_Step]_vars

\* An automated turn of a match in the active store has started with the
\* human to move and has ended.
C36_Witness ==
    /\ last.op = "ai_move" /\ last.task.pc = "immediate"
    /\ last.gid \in activeGames
    /\ SideOf(games[last.gid], AI) # "-"
    /\ games[last.gid].game.turn # SideOf(games[last.gid], AI)
    /\ ~isGameOver(games[last.gid].game)

\* The step is the return of a failed createGame to handleJoinChallenge.
JoinDbError(step) == step.op = "join_challenge" /\ step.res = "db_error"

\* C37 as stated: when createGame fails inside join_challenge the claimant
\* is sent an error, no match is added to the active store, no game_started
\* is sent, and the pending challenge is present afterwards.
C37_OriginalStep ==
    JoinDbError(last') =>
        /\ OnlyErrorTo(last'.sent, last'.ws) /\ last'.sent # <<>>
        /\ activeGames' = activeGames
        /\ last'.gid \in DOMAIN pendingChallenges'
C37_ChallengeStillPresent == [][C37_OriginalStep]_vars

\* C37, amended: when createGame fails inside join_challenge the claimant is
\* sent an error and nothing else is sent, and the handler leaves the active
\* store, the game objects, the pending challenges and the rows of the
\* database as they were: a challenge that was pending when the call
\* returned is pending afterwards, with no row in its way.
C37_AmendedStep ==
    JoinDbError(last') =>
        /\ OnlyErrorTo(last'.sent, last'.ws) /\ last'.sent # <<>>
        /\ activeGames' = activeGames
        /\ games' = games
        /\ playerGames' = playerGames
        /\ dbGames' = dbGames
        /\ pendingChallenges' = pendingChallenges
        /\ tasks' = tasks \ {last'.task}
C37_FailedJoinKeepsChallenge == [][C37_AmendedStep]_vars

\* createGame has failed for a claim, and the challenge is still pending
\* with no row of its id in the database.
C37_Witness ==
    /\ JoinDbError(last)
    /\ last.gid \in DOMAIN pendingChallenges
    /\ last.gid \notin dbGames
    /\ last.gid \notin activeGames
    /\ \E ws \in playerConnections : JoinCheck(ws, last.gid) = "ok"
====
